---- MODULE Spec2Model ----
(***************************************************************************)
(* Model of diagrams/architecture.py: the construction pass of the         *)
(* "Multi region workload" diagram (DNS/ACM variant).  The script is a     *)
(* straight-line sequence of node declarations, Cluster scopes and >>      *)
(* edge declarations inside one `with Diagram(...)` scope; the Diagram     *)
(* scope hands the graph to the Renderer when it closes.                   *)
(***************************************************************************)
EXTENDS Integers, Sequences, FiniteSets

\* Number of times the script is run (each run is a fresh process; only the
\* output image file survives from one run to the next).
MaxRuns == 2

VARIABLES
    run,        \* index of the current run of the script
    pc,         \* index of the statement of the with-body being executed;
                \* 0 before the with-body is entered (imports, Diagram(...))
    sub,        \* number of steps of that statement already executed
    tmp,        \* value of the expression under evaluation: a node id
    status,     \* "running", "done" (exit 0) or "aborted" (exception propagated)
    exc,        \* TRUE once an exception is in flight in the current run
    nodes,      \* nodes declared so far: [id, kind, label, cluster]
    clusters,   \* clusters opened so far: [id, label, parent]
    stack,      \* ids of the Cluster scopes currently open, innermost last
    exited,     \* ids of the clusters whose __exit__ has been called
    edges,      \* directed edges declared so far: <<source id, target id>>
    env,        \* Python variable bindings: name -> node id
    submitted,  \* number of Renderer invocations in the current run
    image,      \* the output image file: NoImage or [run, graph]
    exits       \* exit status of the finished runs, oldest first

vars == <<run, pc, sub, tmp, status, exc, nodes, clusters, stack, exited,
          edges, env, submitted, image, exits>>

----------------------------------------------------------------------------
\* The statements of the with-body, in source order.

N(var, kind, label, line) ==
    [op |-> "node", var |-> var, kind |-> kind, label |-> label,
     chain |-> <<>>, line |-> line]

Enter(label, line) ==
    [op |-> "enter", var |-> "", kind |-> "Cluster", label |-> label,
     chain |-> <<>>, line |-> line]

Exit(line) ==
    [op |-> "exit", var |-> "", kind |-> "Cluster", label |-> "",
     chain |-> <<>>, line |-> line]

Chain(names, line) ==
    [op |-> "chain", var |-> "", kind |-> "", label |-> "",
     chain |-> names, line |-> line]

SharedAccountBlock ==
    << Enter("Shared Account", 13),
       N("route53_main", "Route53HostedZone", "Route 53 Public Hosted Zone", 14),
       N("acm", "CertificateManager", "Certificate Manager", 15),
       N("ecr", "EC2ContainerRegistry", "ECR with multiregion replication", 16),
       N("tgw", "TransitGateway", "Transit Gateway", 17),
       N("shared_acc", "OrganizationsAccount", "Shared account", 18),
       N("tgw_attachment_shared", "TransitGatewayAttachment", "Transit Gateway Attachment", 19),
       N("vpc_shared", "VPC", "VPC", 20),
       Enter("Private Subnet", 21),
       N("lb", "ALB", "Application Load Balancer", 22),
       N("eks", "ElasticKubernetesService", "web services", 23),
       Chain(<<"lb", "eks">>, 24),
       Exit(24),
       Exit(24) >>

RegionBlock(region, attVar, vpcVar, first) ==
    << Enter(region, first),
       N(attVar, "TransitGatewayAttachment", "Transit Gateway Attachment", first + 1),
       N(vpcVar, "VPC", "VPC", first + 2),
       Enter("Public Subnet", first + 3),
       N("lb", "ALB", "Application Load Balancer", first + 4),
       N("eks", "ElasticKubernetesService", "web services", first + 5),
       N("db", "RDS", "Aurora Global Database", first + 6),
       Chain(<<"lb", "eks", "db">>, first + 7),
       Exit(first + 7),
       Exit(first + 7) >>

WorkloadAccountBlock ==
    << Enter("Workload Account", 26),
       N("workload_acc", "OrganizationsAccount", "Workload account", 27),
       N("acm", "CertificateManager", "Certificate Manager", 28),
       N("route53_workload", "Route53HostedZone", "Route 53 Public Hosted Zone", 29) >>
    \o RegionBlock("us-east-1", "tgw_attachment_workload_region_1",
                   "vpc_workload_region_1", 30)
    \o RegionBlock("us-west-2", "tgw_attachment_workload_region_2",
                   "vpc_workload_region_2", 38)
    \o << Exit(45) >>

TopLevelEdges ==
    << Chain(<<"tgw", "tgw_attachment_workload_region_1", "vpc_workload_region_1">>, 47),
       Chain(<<"tgw", "tgw_attachment_workload_region_2", "vpc_workload_region_2">>, 48),
       Chain(<<"tgw", "tgw_attachment_shared", "vpc_shared">>, 49),
       Chain(<<"route53_main", "route53_workload">>, 50),
       Chain(<<"org", "workload_acc">>, 51),
       Chain(<<"org", "shared_acc">>, 52) >>

\* Mutation of Body: the statement org >> shared_acc stands right after the
\* Shared Account block instead of at the end of the script.
BodyWithEarlyTopLevelEdge ==
    << N("org", "Organizations", "AWS Organizations", 11) >>
    \o SharedAccountBlock
    \o << Chain(<<"org", "shared_acc">>, 52) >>
    \o WorkloadAccountBlock
    \o SubSeq(TopLevelEdges, 1, Len(TopLevelEdges) - 1)

Body ==
    << N("org", "Organizations", "AWS Organizations", 11) >>
    \o SharedAccountBlock \o WorkloadAccountBlock \o TopLevelEdges

\* Position of Diagram.__exit__: just past the last statement of the body.
AtExit == Len(Body) + 1

\* Position after the with Diagram block: the end of the script.
AtEnd == AtExit + 1

Stmt == Body[pc]

VarNames == {Body[i].var : i \in {j \in 1..Len(Body) : Body[j].op = "node"}}

----------------------------------------------------------------------------
\* Values standing for "nothing".
Root == 0                   \* the diagram itself, parent of top-level clusters
NoId == <<0, 0>>            \* an unbound variable, no value under evaluation
NoImage == [run |-> 0]      \* no output file on disk

----------------------------------------------------------------------------
\* The library's context and the operations the statements perform.

\* Mutation of CurrentCluster: the outermost open Cluster is taken as the
\* current one.
OutermostCluster == IF stack = <<>> THEN Root ELSE stack[1]

\* getcluster(): the innermost open Cluster, or the diagram when none is open.
CurrentCluster == IF stack = <<>> THEN Root ELSE stack[Len(stack)]

\* Each constructor call makes a new object with an identity of its own.
NewNodeId == <<run, Cardinality(nodes) + 1>>

NewClusterId == Cardinality(clusters) + 1

\* Node(label): the node registers itself with the cluster open at that moment.
NewNode(kind, label) ==
    [id |-> NewNodeId, kind |-> kind, label |-> label, cluster |-> CurrentCluster]

\* Mutation of AddNode: nodes are keyed by their label, so a second node with
\* a label already in the graph is merged into the first.
AddNodeKeyedByLabel(ns, n) ==
    IF \E m \in ns : m.label = n.label THEN ns ELSE ns \cup {n}

AddNode(ns, n) == ns \cup {n}

\* Mutation of NewCluster: every cluster is attached to the diagram itself.
NewClusterAtRoot(label) ==
    [id |-> NewClusterId, label |-> label, parent |-> Root]

\* Cluster(label).__enter__: the parent is the cluster open at that moment.
NewCluster(label) ==
    [id |-> NewClusterId, label |-> label, parent |-> CurrentCluster]

\* Mutation of BindVar: a name that is already bound keeps its first object.
BindVarOnce(e, v, id) == IF e[v] = NoId THEN [e EXCEPT ![v] = id] ELSE e

\* name = Node(...): a Python assignment rebinds the name to the new object.
BindVar(e, v, id) == [e EXCEPT ![v] = id]

\* Mutation of Rshift: the expression evaluates to its left operand, so that
\* a >> b >> c connects a to b and a to c.
RshiftReturnsSelf(self, other) == [edge |-> <<self, other>>, result |-> self]

\* self >> other: connects self to other and evaluates to other.
Rshift(self, other) == [edge |-> <<self, other>>, result |-> other]

\* The left operand of the next >> of a chain: the first name of the
\* statement, or the value of the >> before it (a >> b >> c is (a >> b) >> c).
LeftOperand(names) == IF sub = 0 THEN env[names[1]] ELSE tmp

\* The right operand of the next >> of a chain.
RightOperand(names) == env[names[sub + 2]]

----------------------------------------------------------------------------
\* The logical structure of the graph, with object identities projected away.

ClusterById(c) == CHOOSE k \in clusters : k.id = c

\* Labels of the clusters from the diagram root down to cluster c.
RECURSIVE Path(_)
Path(c) ==
    IF c = Root \/ ~(\E k \in clusters : k.id = c) THEN <<>>
    ELSE Append(Path(ClusterById(c).parent), ClusterById(c).label)

NodeById(i) == CHOOSE n \in nodes : n.id = i

NodeKey(n) == <<n.kind, n.label, Path(n.cluster)>>

NodeIds == {n.id : n \in nodes}

NodeBagOf(ns) ==
    [k \in {NodeKey(n) : n \in ns} |->
        Cardinality({n \in ns : NodeKey(n) = k})]

ClusterBagOf(cs) ==
    [p \in {Path(k.id) : k \in cs} |->
        Cardinality({k \in cs : Path(k.id) = p})]

\* The nodes and clusters declared so far.
NodeBag == NodeBagOf(nodes)

ClusterBag == ClusterBagOf(clusters)

EdgeKeys ==
    {<<NodeKey(NodeById(e[1])), NodeKey(NodeById(e[2]))>> :
        e \in {d \in edges : d[1] \in NodeIds /\ d[2] \in NodeIds}}

\* A cluster hands its content (its nodes and the clusters attached to it) to
\* its parent when its __exit__ is called: the diagram holds the content of
\* cluster c when the __exit__ of c and of every cluster around it was called.
RECURSIVE Attached(_)
Attached(c) ==
    \/ c = Root
    \/ /\ c \in exited
       /\ \E k \in clusters : k.id = c
       /\ Attached(ClusterById(c).parent)

\* What the Renderer is given: the clusters and nodes the diagram holds, and
\* the edges, which >> adds to the diagram itself.
Graph ==
    [nodes |-> NodeBagOf({n \in nodes : Attached(n.cluster)}),
     clusters |-> ClusterBagOf({k \in clusters : Attached(k.id)}),
     edges |-> EdgeKeys]

----------------------------------------------------------------------------
\* The namespace of the script before its first assignment.
EmptyEnv == [v \in VarNames |-> NoId]

\* The script starts in a new process: nothing is imported, no diagram
\* exists, no name is bound.
Init ==
    /\ run = 1
    /\ pc = 0
    /\ sub = 0
    /\ tmp = NoId
    /\ status = "running"
    /\ exc = FALSE
    /\ nodes = {}
    /\ clusters = {}
    /\ stack = <<>>
    /\ exited = {}
    /\ edges = {}
    /\ env = EmptyEnv
    /\ submitted = 0
    /\ image = NoImage
    /\ exits = <<>>

\* The imports and Diagram(...).__enter__ succeed: the with-body is entered
\* with a new, empty diagram.
DiagramEnter ==
    /\ status = "running"
    /\ pc = 0
    /\ pc' = 1
    /\ nodes' = {}
    /\ clusters' = {}
    /\ stack' = <<>>
    /\ exited' = {}
    /\ edges' = {}
    /\ UNCHANGED <<run, sub, tmp, status, exc, env, submitted, image, exits>>

\* An import, Diagram(...) or its __enter__ raises: the with-body is never
\* entered, Diagram.__exit__ is not called and the process ends.
StartFails ==
    /\ status = "running"
    /\ pc = 0
    /\ exc' = TRUE
    /\ status' = "aborted"
    /\ UNCHANGED <<run, pc, sub, tmp, nodes, clusters, stack, exited, edges, env,
                   submitted, image, exits>>

InBody == status = "running" /\ ~exc /\ pc \in 1..Len(Body)

\* Kind("label"), the right-hand side of name = Kind("label"): the node is
\* constructed and registers itself in the graph.
ConstructNode ==
    /\ InBody
    /\ Stmt.op = "node"
    /\ sub = 0
    /\ LET n == NewNode(Stmt.kind, Stmt.label)
       IN  /\ nodes' = AddNode(nodes, n)
           /\ tmp' = n.id
    /\ sub' = 1
    /\ UNCHANGED <<run, pc, status, exc, clusters, stack, exited, edges, env,
                   submitted, image, exits>>

\* name = <the node just constructed>
BindName ==
    /\ InBody
    /\ Stmt.op = "node"
    /\ sub = 1
    /\ env' = BindVar(env, Stmt.var, tmp)
    /\ tmp' = NoId
    /\ sub' = 0
    /\ pc' = pc + 1
    /\ UNCHANGED <<run, status, exc, nodes, clusters, stack, exited, edges,
                   submitted, image, exits>>

\* with Cluster("label"):
ClusterEnter ==
    /\ InBody
    /\ Stmt.op = "enter"
    /\ LET c == NewCluster(Stmt.label)
       IN  /\ clusters' = clusters \cup {c}
           /\ stack' = Append(stack, c.id)
    /\ pc' = pc + 1
    /\ UNCHANGED <<run, sub, tmp, status, exc, nodes, exited, edges, env,
                   submitted, image, exits>>

\* Cluster.__exit__ of the innermost open block: the cluster hands its content
\* to its parent and the enclosing cluster is the current one again.
LeaveCluster ==
    /\ stack' = SubSeq(stack, 1, Len(stack) - 1)
    /\ exited' = exited \cup {stack[Len(stack)]}

\* End of a Cluster block, left normally.
ClusterExit ==
    /\ InBody
    /\ Stmt.op = "exit"
    /\ stack # <<>>
    /\ LeaveCluster
    /\ pc' = pc + 1
    /\ UNCHANGED <<run, sub, tmp, status, exc, nodes, clusters, edges, env,
                   submitted, image, exits>>

\* One >> of a statement a >> b or a >> b >> c: the edge is added and the
\* value of the >> is the left operand of the next >>, if there is one.
DeclareEdge ==
    /\ InBody
    /\ Stmt.op = "chain"
    /\ LET r == Rshift(LeftOperand(Stmt.chain), RightOperand(Stmt.chain))
           last == sub + 2 = Len(Stmt.chain)
       IN  /\ edges' = edges \cup {r.edge}
           /\ tmp' = IF last THEN NoId ELSE r.result
           /\ sub' = IF last THEN 0 ELSE sub + 1
           /\ pc' = IF last THEN pc + 1 ELSE pc
    /\ UNCHANGED <<run, status, exc, nodes, clusters, stack, exited, env,
                   submitted, image, exits>>

\* An exception is raised inside the with-body: before the next step of the
\* statement under execution, or after the last statement (a raise or a signal
\* that surfaces once the last >> has added its edge).  The steps already
\* executed keep their effect, the value under evaluation is dropped, and the
\* with statements unwind.
Raise ==
    /\ status = "running"
    /\ ~exc
    /\ pc \in 1..AtExit
    /\ exc' = TRUE
    /\ tmp' = NoId
    /\ sub' = 0
    /\ pc' = AtExit
    /\ UNCHANGED <<run, status, nodes, clusters, stack, exited, edges, env,
                   submitted, image, exits>>

\* The innermost Cluster block is at one of its two ends: it has just been
\* entered, or its last statement is done.
AtClusterBoundary ==
    /\ InBody
    /\ sub = 0
    /\ stack # <<>>
    /\ \/ Stmt.op = "exit"
       \/ Body[pc - 1].op = "enter"

\* An exception surfaces where the with statement of the innermost Cluster
\* block does not guard it: in its normal-exit sequence, in __enter__ once the
\* cluster is the current one, or, with an exception already in flight, in the
\* handler of the block before its __exit__ is entered.  The __exit__ of that
\* cluster is not called; those of the blocks around it are.
RaiseSkipsClusterExit ==
    /\ status = "running"
    /\ stack # <<>>
    /\ \/ AtClusterBoundary
       \/ exc /\ pc = AtExit
    /\ exc' = TRUE
    /\ stack' = SubSeq(stack, 1, Len(stack) - 1)
    /\ pc' = AtExit
    /\ UNCHANGED <<run, sub, tmp, status, nodes, clusters, exited, edges, env,
                   submitted, image, exits>>

\* Unwinding leaves the innermost open Cluster block: Cluster.__exit__ is
\* called with the exception.  (RaiseSkipsClusterExit is the other outcome: a
\* second exception leaves the block before its __exit__ is called.)
Unwind ==
    /\ status = "running"
    /\ exc
    /\ stack # <<>>
    /\ LeaveCluster
    /\ UNCHANGED <<run, pc, sub, tmp, status, exc, nodes, clusters, edges, env,
                   submitted, image, exits>>

\* The with Diagram block is left, normally or by an exception.
AtDiagramExit == status = "running" /\ pc = AtExit /\ stack = <<>>

\* Diagram.__exit__ is called, with or without an exception in flight, and
\* calls render(); the Renderer writes the image file.  An exception in
\* flight then ends the run; otherwise the script goes on past the block.
RenderOk ==
    /\ AtDiagramExit
    /\ submitted' = submitted + 1
    /\ image' = [run |-> run, graph |-> Graph]
    /\ status' = IF exc THEN "aborted" ELSE "running"
    /\ pc' = IF exc THEN pc ELSE AtEnd
    /\ UNCHANGED <<run, sub, tmp, exc, nodes, clusters, stack, exited, edges, env, exits>>

\* Diagram.__exit__ calls render() and the Renderer cannot be invoked: the
\* error propagates and no file is written.
RenderFails ==
    /\ AtDiagramExit
    /\ submitted' = submitted + 1
    /\ exc' = TRUE
    /\ status' = "aborted"
    /\ UNCHANGED <<run, pc, sub, tmp, nodes, clusters, stack, exited, edges, env,
                   image, exits>>

\* An exception surfaces where the with Diagram statement does not guard it:
\* in its normal-exit sequence or, with an exception already in flight, in its
\* handler before Diagram.__exit__ is entered.  Diagram.__exit__ is not called
\* and the Renderer is not invoked.
RaiseSkipsDiagramExit ==
    /\ AtDiagramExit
    /\ exc' = TRUE
    /\ status' = "aborted"
    /\ UNCHANGED <<run, pc, sub, tmp, nodes, clusters, stack, exited, edges, env,
                   submitted, image, exits>>

\* The end of the script is reached: the process exits with status 0.
ProcessExit ==
    /\ status = "running"
    /\ pc = AtEnd
    /\ status' = "done"
    /\ UNCHANGED <<run, pc, sub, tmp, exc, nodes, clusters, stack, exited, edges, env,
                   submitted, image, exits>>

\* A signal surfaces after Diagram.__exit__ has returned: the process ends
\* with the exception, the image being written.
RaiseAfterExit ==
    /\ status = "running"
    /\ pc = AtEnd
    /\ exc' = TRUE
    /\ status' = "aborted"
    /\ UNCHANGED <<run, pc, sub, tmp, nodes, clusters, stack, exited, edges, env,
                   submitted, image, exits>>

\* The script is run again: a new process; only the image file is still there.
RunAgain ==
    /\ status \in {"done", "aborted"}
    /\ run < MaxRuns
    /\ run' = run + 1
    /\ exits' = Append(exits, status)
    /\ pc' = 0
    /\ sub' = 0
    /\ tmp' = NoId
    /\ status' = "running"
    /\ exc' = FALSE
    /\ nodes' = {}
    /\ clusters' = {}
    /\ stack' = <<>>
    /\ exited' = {}
    /\ edges' = {}
    /\ env' = EmptyEnv
    /\ submitted' = 0
    /\ UNCHANGED image

Next ==
    \/ DiagramEnter
    \/ StartFails
    \/ ConstructNode
    \/ BindName
    \/ ClusterEnter
    \/ ClusterExit
    \/ DeclareEdge
    \/ Raise
    \/ RaiseSkipsClusterExit
    \/ Unwind
    \/ RenderOk
    \/ RenderFails
    \/ RaiseSkipsDiagramExit
    \/ ProcessExit
    \/ RaiseAfterExit
    \/ RunAgain

Spec == Init /\ [][Next]_vars

----------------------------------------------------------------------------
\* Vocabulary of the properties.

\* The declaration pass has run to its end without an exception: Graph is
\* what Diagram.__exit__ hands, or has handed, to the Renderer.
BuildFinished == pc \in {AtExit, AtEnd} /\ (~exc \/ pc = AtEnd)

\* This run has written the output image.
ImageWritten == image # NoImage /\ image.run = run

StmtsOf(op) == {i \in 1..Len(Body) : Body[i].op = op}

KindCount(k) == Cardinality({n \in nodes : n.kind = k})

RECURSIVE BagSize(_, _)
BagSize(b, keys) ==
    IF keys = {} THEN 0
    ELSE LET k == CHOOSE x \in keys : TRUE
         IN  b[k] + BagSize(b, keys \ {k})

ExpectedKinds ==
    [k \in {"Organizations", "OrganizationsAccount", "EC2ContainerRegistry",
            "TransitGateway", "VPC", "TransitGatewayAttachment", "ALB",
            "ElasticKubernetesService", "RDS", "Route53HostedZone",
            "CertificateManager"} |->
        CASE k \in {"Organizations", "EC2ContainerRegistry", "TransitGateway"} -> 1
          [] k \in {"OrganizationsAccount", "RDS", "Route53HostedZone",
                    "CertificateManager"} -> 2
          [] OTHER -> 3]

----------------------------------------------------------------------------
\* C1: when the build finishes, the graph handed to the Renderer has exactly
\* 23 nodes, one per node declaration executed, with the stated number of
\* nodes of each kind; the image written from it has the same 23 nodes.
C1_NodeSet ==
    BuildFinished =>
        /\ Cardinality(nodes) = 23
        /\ Cardinality(nodes) = Cardinality(StmtsOf("node"))
        /\ Cardinality(NodeIds) = 23
        /\ BagSize(Graph.nodes, DOMAIN Graph.nodes) = 23
        /\ \A n \in nodes : n.kind \in DOMAIN ExpectedKinds
        /\ \A k \in DOMAIN ExpectedKinds : KindCount(k) = ExpectedKinds[k]
        /\ (pc = AtEnd =>
                /\ ImageWritten
                /\ BagSize(image.graph.nodes, DOMAIN image.graph.nodes) = 23)

\* The build of the first run has finished and the Renderer has its graph.
C1_Witness ==
    /\ BuildFinished
    /\ status = "done"
    /\ ImageWritten
    /\ Cardinality(nodes) = 23

----------------------------------------------------------------------------
\* Cluster paths and node keys of the topology, for stating the edge set.
SharedP == <<"Shared Account">>
PrivateP == <<"Shared Account", "Private Subnet">>
WorkloadP == <<"Workload Account">>
RegionP(r) == <<"Workload Account", r>>
PublicP(r) == <<"Workload Account", r, "Public Subnet">>
Regions == {"us-east-1", "us-west-2"}

OrgK == <<"Organizations", "AWS Organizations", <<>>>>
AccountK(label, p) == <<"OrganizationsAccount", label, p>>
TgwK == <<"TransitGateway", "Transit Gateway", SharedP>>
AttachmentK(p) == <<"TransitGatewayAttachment", "Transit Gateway Attachment", p>>
VpcK(p) == <<"VPC", "VPC", p>>
LbK(p) == <<"ALB", "Application Load Balancer", p>>
EksK(p) == <<"ElasticKubernetesService", "web services", p>>
DbK(p) == <<"RDS", "Aurora Global Database", p>>
ZoneK(p) == <<"Route53HostedZone", "Route 53 Public Hosted Zone", p>>

ExpectedEdges ==
    {<<OrgK, AccountK("Shared account", SharedP)>>,
     <<OrgK, AccountK("Workload account", WorkloadP)>>,
     <<LbK(PrivateP), EksK(PrivateP)>>,
     <<ZoneK(SharedP), ZoneK(WorkloadP)>>}
    \cup {<<TgwK, AttachmentK(p)>> : p \in {SharedP} \cup {RegionP(r) : r \in Regions}}
    \cup {<<AttachmentK(p), VpcK(p)>> : p \in {SharedP} \cup {RegionP(r) : r \in Regions}}
    \cup {<<LbK(PublicP(r)), EksK(PublicP(r))>> : r \in Regions}
    \cup {<<EksK(PublicP(r)), DbK(PublicP(r))>> : r \in Regions}

KindOf(i) == NodeById(i).kind

\* C2: when the build finishes the edge set is exactly the 14 listed edges;
\* and at no point does a chain a >> b >> c add the edge a -> c (no
\* TransitGateway -> VPC and no ALB -> RDS edge), nor does any edge touch the
\* ECR node or a CertificateManager node.
C2_EdgeSet ==
    /\ \A e \in edges :
          e[1] \in NodeIds /\ e[2] \in NodeIds =>
              /\ ~(KindOf(e[1]) = "TransitGateway" /\ KindOf(e[2]) = "VPC")
              /\ ~(KindOf(e[1]) = "ALB" /\ KindOf(e[2]) = "RDS")
              /\ {KindOf(e[1]), KindOf(e[2])}
                    \cap {"EC2ContainerRegistry", "CertificateManager"} = {}
    /\ BuildFinished =>
          /\ Cardinality(edges) = 14
          /\ Cardinality(ExpectedEdges) = 14
          /\ EdgeKeys = ExpectedEdges
          /\ \A e \in edges : e[1] \in NodeIds /\ e[2] \in NodeIds
          /\ (pc = AtEnd => ImageWritten /\ image.graph.edges = ExpectedEdges)

\* The build has finished with both three-node chains of the regions and the
\* three top-level chains evaluated.
C2_Witness ==
    /\ BuildFinished
    /\ status = "done"
    /\ Cardinality(edges) = 14
    /\ \A r \in Regions : <<EksK(PublicP(r)), DbK(PublicP(r))>> \in EdgeKeys

----------------------------------------------------------------------------
ClusterIds == {k.id : k \in clusters}

\* The proper ancestors of cluster c, following parent links at most n times;
\* Root is among them when the walk reaches the diagram.
RECURSIVE Up(_, _)
Up(c, n) ==
    IF n = 0 \/ c = Root \/ c \notin ClusterIds THEN {}
    ELSE {ClusterById(c).parent} \cup Up(ClusterById(c).parent, n - 1)

Ancestors(c) == Up(c, Cardinality(clusters) + 1)

ExpectedClusterPaths ==
    {SharedP, PrivateP, WorkloadP}
    \cup {RegionP(r) : r \in Regions} \cup {PublicP(r) : r \in Regions}

\* The cluster nesting is a tree rooted at the diagram.
ClusterTree ==
    /\ Cardinality(ClusterIds) = Cardinality(clusters)
    /\ \A k \in clusters :
          /\ k.parent \in ClusterIds \cup {Root}
          /\ k.id \notin Ancestors(k.id)
          /\ Root \in Ancestors(k.id)
    \* the open scopes are a branch of the tree, outermost first
    /\ \A i \in 1..Len(stack) :
          /\ stack[i] \in ClusterIds
          /\ ClusterById(stack[i]).parent = IF i = 1 THEN Root ELSE stack[i - 1]

\* C3: at every point of the construction pass the cluster nesting is a tree
\* rooted at the diagram (one parent per cluster, no cluster its own
\* ancestor, none shared); a cluster's parent is the cluster that was open
\* when it was entered; at the end there are exactly the 7 clusters, the two
\* Public Subnet clusters being distinct and under different regions.
C3_ClusterTree ==
    /\ [] ClusterTree
    /\ [][ clusters' # clusters /\ run' = run =>
              \E k \in clusters' \ clusters :
                  /\ clusters' = clusters \cup {k}
                  /\ k.parent = CurrentCluster
                  /\ stack' = Append(stack, k.id) ]_vars
    /\ [] (BuildFinished =>
              /\ Cardinality(clusters) = 7
              /\ stack = <<>>
              /\ DOMAIN ClusterBag = ExpectedClusterPaths
              /\ \A p \in ExpectedClusterPaths : ClusterBag[p] = 1
              /\ Cardinality({k \in clusters : k.label = "Public Subnet"}) = 2
              /\ \A k1, k2 \in clusters :
                    k1.label = "Public Subnet" /\ k2.label = "Public Subnet"
                    /\ k1 # k2 => k1.parent # k2.parent)

\* Three scopes are open at once: the second Public Subnet, inside us-west-2,
\* inside Workload Account.
C3_Witness ==
    /\ Len(stack) = 3
    /\ Cardinality(clusters) = 7
    /\ Path(CurrentCluster) = PublicP("us-west-2")

----------------------------------------------------------------------------
NodesUnder(p) == {n \in nodes : Path(n.cluster) = p}

\* Nodes whose container is the top-level cluster labelled l or a cluster
\* nested in it.
NodesBelowTop(l) ==
    {n \in nodes : Path(n.cluster) # <<>> /\ Path(n.cluster)[1] = l}

\* C4: every node has exactly one container, the innermost cluster open when
\* it was declared (the diagram when none was open); at the end Organizations
\* is at the root, 9 nodes are under Shared Account (7 directly, 2 in Private
\* Subnet) and 13 under Workload Account (3 directly, and per region 2
\* directly and 3 in its Public Subnet).
C4_NodeContainer ==
    /\ [] /\ Cardinality(NodeIds) = Cardinality(nodes)
          /\ \A n \in nodes : n.cluster \in ClusterIds \cup {Root}
    /\ [][ nodes' # nodes /\ run' = run =>
              \E n \in nodes' \ nodes :
                  /\ nodes' = nodes \cup {n}
                  /\ n.cluster = CurrentCluster
                  /\ n.cluster = IF stack = <<>> THEN Root ELSE stack[Len(stack)] ]_vars
    /\ [] (BuildFinished =>
              /\ {n.kind : n \in NodesUnder(<<>>)} = {"Organizations"}
              /\ Cardinality(NodesUnder(<<>>)) = 1
              /\ Cardinality(NodesBelowTop("Shared Account")) = 9
              /\ Cardinality(NodesUnder(SharedP)) = 7
              /\ Cardinality(NodesUnder(PrivateP)) = 2
              /\ Cardinality(NodesBelowTop("Workload Account")) = 13
              /\ Cardinality(NodesUnder(WorkloadP)) = 3
              /\ \A r \in Regions :
                    /\ Cardinality(NodesUnder(RegionP(r))) = 2
                    /\ Cardinality(NodesUnder(PublicP(r))) = 3
              /\ NodesBelowTop("Shared Account") \cap NodesBelowTop("Workload Account") = {})

\* The last node of the script (db of us-west-2) has been declared, three
\* cluster levels deep.
C4_Witness ==
    /\ Cardinality(nodes) = 23
    /\ Len(stack) = 3
    /\ Cardinality(NodesUnder(PublicP("us-west-2"))) = 3

----------------------------------------------------------------------------
\* C5: two runs of the builder produce the same logical graph (the same bag
\* of (kind, label, cluster path), the same cluster tree, the same edges between
\* them), whatever the identities of the nodes: the graph a run hands to the
\* Renderer, and the image written from it, has the structure of the image any
\* earlier run wrote; and a run starts from an empty diagram, with nothing of
\* an earlier run in it.
C5_SameStructure ==
    /\ [][ image' # image /\ image # NoImage => image'.graph = image.graph ]_vars
    /\ [][ run' # run =>
              nodes' = {} /\ clusters' = {} /\ edges' = {} /\ stack' = <<>>
              /\ exited' = {} /\ tmp' = NoId /\ submitted' = 0
              /\ \A v \in VarNames : env'[v] = NoId ]_vars
    /\ [] (\A n \in nodes : n.id[1] = run)

----------------------------------------------------------------------------
\* Every node, cluster and edge statement of the script has been executed and
\* no Cluster scope is open.
AllDeclared ==
    /\ Cardinality(nodes) = Cardinality(StmtsOf("node"))
    /\ Cardinality(clusters) = Cardinality(StmtsOf("enter"))
    /\ EdgeKeys = ExpectedEdges
    /\ stack = <<>>

\* Nothing is declared by the step.
NoDeclaration == nodes' = nodes /\ clusters' = clusters /\ edges' = edges

\* C6: the complete graph is submitted to the Renderer exactly once per run,
\* as the last step, when the Diagram scope closes (a run that ends normally
\* has submitted once, no run submits twice): at that moment all 23 nodes, 7
\* clusters and 14 edges are declared and every cluster scope is closed, and
\* nothing is declared after the submission.
C6_SubmitOnceComplete ==
    /\ [] (status = "done" => submitted = 1)
    /\ [] (submitted \in {0, 1})
    /\ [] (submitted > 0 =>
              /\ AllDeclared
              /\ Cardinality(nodes) = 23
              /\ Cardinality(clusters) = 7
              /\ Cardinality(edges) = 14)
    /\ [][ submitted > 0 /\ run' = run => NoDeclaration ]_vars

----------------------------------------------------------------------------
\* C7 as stated: three phases in order, every node and cluster declaration
\* before every edge declaration, every edge declaration before the
\* submission.
C7_ThreePhases ==
    [][ run' = run =>
           /\ (edges # {} => nodes' = nodes /\ clusters' = clusters)
           /\ (submitted > 0 => NoDeclaration) ]_vars

\* C7, amended: the build is one straight-line sequence that ends with the
\* submission; every declaration precedes the submission, every edge is
\* declared after both of its endpoints, and the edges declared outside every
\* cluster (lines 47-52) come after all node and cluster declarations; but
\* the first edge (line 24) is declared inside its cluster while nodes and
\* clusters are still to be declared.
C7_Interleaved ==
    /\ [][ run' = run /\ submitted > 0 => NoDeclaration ]_vars
    /\ [][ run' = run /\ edges' # edges =>
              /\ \A e \in edges' \ edges : e[1] \in NodeIds /\ e[2] \in NodeIds
              /\ nodes' = nodes /\ clusters' = clusters
              /\ (stack = <<>> =>
                    /\ Cardinality(nodes) = Cardinality(StmtsOf("node"))
                    /\ Cardinality(clusters) = Cardinality(StmtsOf("enter")))
              /\ (edges = {} =>
                    /\ stack # <<>>
                    /\ Cardinality(nodes) < Cardinality(StmtsOf("node"))
                    /\ Cardinality(clusters) < Cardinality(StmtsOf("enter"))) ]_vars

\* A node (workload_acc, line 27) has been declared after an edge (line 24).
C7_Witness ==
    /\ Cardinality(edges) = 1
    /\ Cardinality(nodes) = 12
    /\ Path(CurrentCluster) = WorkloadP

----------------------------------------------------------------------------
\* C8: all-or-nothing.  Once a step has failed nothing more is executed in
\* that run (no declaration, no Renderer call, no image), a failed Renderer
\* call is not repeated, and an image is written only by a run in which
\* every declaration and the Renderer call completed.
C8_AllOrNothing ==
    /\ [][ exc /\ run' = run =>
              NoDeclaration /\ submitted' = submitted /\ image' = image ]_vars
    /\ [] (ImageWritten => AllDeclared /\ pc = AtEnd)

----------------------------------------------------------------------------
ClusterOf(i) == NodeById(i).cluster

LabelOfCluster(c) == IF c = Root THEN "" ELSE ClusterById(c).label

KnownEdges == {e \in edges : e[1] \in NodeIds /\ e[2] \in NodeIds}

\* Edges whose two endpoints have different containers.
CrossEdges == {e \in KnownEdges : ClusterOf(e[1]) # ClusterOf(e[2])}

CrossEdgeKeys ==
    {<<NodeKey(NodeById(e[1])), NodeKey(NodeById(e[2]))>> : e \in CrossEdges}

SubnetLabels == {"Private Subnet", "Public Subnet"}

AccountOrRegionLabels == {"Shared Account"} \cup Regions

\* The parts of C9 about rebinding and about the edges inside one cluster.
RebindingKeepsEdges ==
    /\ [][ nodes' # nodes /\ run' = run =>
              /\ edges' = edges
              /\ nodes \subseteq nodes'
              /\ \A n \in nodes' \ nodes : n.id \notin NodeIds ]_vars
    /\ [][ env' # env /\ run' = run =>
              /\ edges' = edges
              /\ nodes' = nodes
              /\ \A v \in VarNames :
                    env'[v] # env[v] =>
                        /\ env'[v] \in NodeIds
                        /\ \A w \in VarNames : env[w] # env'[v]
                        /\ \A e \in edges : e[1] # env'[v] /\ e[2] # env'[v] ]_vars
    /\ [][ edges' # edges /\ run' = run /\ stack # <<>> =>
              \A e \in edges' \ edges :
                  /\ e[1] \in NodeIds /\ e[2] \in NodeIds
                  /\ ClusterOf(e[1]) = CurrentCluster
                  /\ ClusterOf(e[2]) = CurrentCluster ]_vars
    /\ [] (\A e \in edges :
              /\ e[1] \in NodeIds /\ e[2] \in NodeIds
              /\ (KindOf(e[2]) \in {"ElasticKubernetesService", "RDS"} =>
                    /\ ClusterOf(e[1]) = ClusterOf(e[2])
                    /\ LabelOfCluster(ClusterOf(e[1])) \in SubnetLabels)
              /\ (KindOf(e[2]) = "VPC" =>
                    /\ KindOf(e[1]) = "TransitGatewayAttachment"
                    /\ ClusterOf(e[1]) = ClusterOf(e[2])
                    /\ LabelOfCluster(ClusterOf(e[1])) \in AccountOrRegionLabels))

\* C9 as stated: the last part says that the edges between different clusters
\* are the three tgw -> attachment edges, route53_main -> route53_workload
\* and the two org -> account edges.
C9_CrossClusterEdges ==
    BuildFinished =>
        CrossEdgeKeys =
            {<<TgwK, AttachmentK(p)>> : p \in {SharedP} \cup {RegionP(r) : r \in Regions}}
            \cup {<<ZoneK(SharedP), ZoneK(WorkloadP)>>,
                  <<OrgK, AccountK("Shared account", SharedP)>>,
                  <<OrgK, AccountK("Workload account", WorkloadP)>>}

\* C9, amended: rebinding lb, eks, db and acm creates new nodes and changes no
\* edge; each lb -> eks and eks -> db edge joins two members of the subnet
\* cluster open when it was declared; each attachment -> VPC edge joins two
\* direct members of one account or region cluster; the edges between
\* different clusters are the two tgw -> attachment edges into the workload
\* regions, route53_main -> route53_workload and the two org -> account edges,
\* while tgw -> tgw_attachment_shared joins two members of Shared Account.
C9_RebindingAndCrossEdges ==
    /\ RebindingKeepsEdges
    /\ [] (CrossEdgeKeys \subseteq
              {<<TgwK, AttachmentK(RegionP(r))>> : r \in Regions}
              \cup {<<ZoneK(SharedP), ZoneK(WorkloadP)>>,
                    <<OrgK, AccountK("Shared account", SharedP)>>,
                    <<OrgK, AccountK("Workload account", WorkloadP)>>})
    /\ [] (BuildFinished =>
              /\ CrossEdgeKeys =
                    {<<TgwK, AttachmentK(RegionP(r))>> : r \in Regions}
                    \cup {<<ZoneK(SharedP), ZoneK(WorkloadP)>>,
                          <<OrgK, AccountK("Shared account", SharedP)>>,
                          <<OrgK, AccountK("Workload account", WorkloadP)>>}
              /\ Cardinality(CrossEdges) = 5
              /\ <<TgwK, AttachmentK(SharedP)>> \in EdgeKeys \ CrossEdgeKeys)

\* lb, eks and db have been bound three times and the chain of us-west-2 has
\* been evaluated on the latest bindings; all top-level edges are declared.
C9_Witness ==
    /\ BuildFinished
    /\ Cardinality({n \in nodes : n.kind = "ALB"}) = 3
    /\ ClusterOf(env["lb"]) = ClusterOf(env["db"])
    /\ Path(ClusterOf(env["lb"])) = PublicP("us-west-2")
    /\ <<env["lb"], env["eks"]>> \in edges
    /\ Cardinality(CrossEdges) = 5

----------------------------------------------------------------------------
\* C10: no dangling edges.  In every state both endpoints of every edge are
\* declared nodes; they were declared before the edge was; no step of a run
\* removes a node; and in the graph handed to the Renderer every edge ends at
\* nodes of that graph.
C10_NoDanglingEdges ==
    /\ [] (\A e \in edges : e[1] \in NodeIds /\ e[2] \in NodeIds)
    /\ [][ run' = run =>
              /\ \A e \in edges' \ edges : e[1] \in NodeIds /\ e[2] \in NodeIds
              /\ nodes \subseteq nodes'
              /\ edges \subseteq edges' ]_vars
    /\ [] (image # NoImage =>
              \A k \in image.graph.edges :
                  k[1] \in DOMAIN image.graph.nodes /\ k[2] \in DOMAIN image.graph.nodes)

====
